---- MODULE Spec2Model ----
(***************************************************************************)
(* A state-machine model of AntColonySolver (src/aco.py): the constructor, *)
(* solve_initialize, the epoch loop of solve with its termination policy,  *)
(* and next_node.                                                          *)
(*                                                                         *)
(* Numbers.  cost_fn returns a float; the model holds a cost in tenths     *)
(* (14 is 1.4).  The ants' "distance", "path_cost" and "round_trips" are   *)
(* int32 arrays, so a cost stored there is truncated to whole units.       *)
(* Pheromones and rewards are floats; the model holds them as fractions    *)
(* <<n, d>> with d >= 0, where <<1,0>> is inf, <<-1,0>> is -inf and        *)
(* <<0,0>> is nan (rounding of floats is not modelled).  The exponents     *)
(* reward_power and decay_power range over -1, 0 and 1, distance_power is  *)
(* its default 1.  Wall-clock time is read in half seconds.                *)
(*                                                                         *)
(* random.random() is modelled by nondeterministic choice: with all        *)
(* weights positive the roulette wheel of next_node can return any         *)
(* candidate.                                                              *)
(***************************************************************************)
EXTENDS Integers, Sequences, FiniteSets, TLC

\* Bounds of the model.
MaxEpoch == 24
MaxClock == 3
MaxCalls == 2
MaxSquareEpoch == 52

\* np.inf, the initial best_path_cost (larger than every int32 path cost met).
Inf == 2147483647

\* best_path = None
None == <<>>

Nodes == 1..4

VARIABLES
    cfg,            \* the options stored by __init__ (self.time, ...)
    ant_count,      \* self.ant_count
    ant_speed,      \* self.ant_speed
    initalized,     \* self._initalized
    distances,      \* self.distances, in tenths
    distance_cost,  \* self.distance_cost, fractions
    pheromones,     \* self.pheromones, fractions
    ants_used,      \* self.ants_used
    epochs_used,    \* self.epochs_used
    round_trips,    \* self.round_trips
    cost_fn,        \* self.cost_fn: the name of the cost oracle
    pc,             \* "idle" | "loop" | "returned" | "raised"
    problem_path,   \* solve's argument
    ants,           \* solve's local ants
    best_path,      \* solve's local best_path
    best_path_cost, \* solve's local best_path_cost
    best_epochs,    \* solve's local best_epochs
    epoch,          \* solve's local epoch
    clock,          \* time.perf_counter() - time_start, in half seconds
    calls,          \* number of solve calls made so far
    last,           \* what the last step did (observation only)
    env             \* the caller: the node lists it passes, the number of
                    \* calls it makes, the epochs a call is followed for, and
                    \* how the draws of random.random() are explored
                    \* ("free" | "same")

vars == <<cfg, ant_count, ant_speed, initalized, distances, distance_cost,
          pheromones, ants_used, epochs_used, round_trips, cost_fn, pc,
          problem_path, ants, best_path, best_path_cost, best_epochs, epoch,
          clock, calls, last, env>>

-----------------------------------------------------------------------------
(* Fractions *)

Abs(x) == IF x < 0 THEN -x ELSE x

Sign(x) == IF x < 0 THEN -1 ELSE IF x > 0 THEN 1 ELSE 0

Max(a, b) == IF a >= b THEN a ELSE b

Min(a, b) == IF a <= b THEN a ELSE b

RECURSIVE GCD(_, _)
GCD(a, b) == IF b = 0 THEN a ELSE GCD(b, a % b)

\* The fraction n/d in lowest terms; d = 0 gives inf, -inf or nan.
Norm(n, d) ==
    IF d = 0 THEN <<Sign(n), 0>>
    ELSE LET g == GCD(Abs(n), Abs(d))
         IN  <<(Sign(d) * n) \div g, Abs(d) \div g>>

FInt(k) == <<k, 1>>

FNaN == <<0, 0>>

IsNaN(p) == p[1] = 0 /\ p[2] = 0

\* float addition
FAdd(p, q) ==
    IF IsNaN(p) \/ IsNaN(q) THEN FNaN
    ELSE IF p[2] = 0 /\ q[2] = 0 THEN (IF p[1] = q[1] THEN p ELSE FNaN)
    ELSE IF p[2] = 0 THEN p
    ELSE IF q[2] = 0 THEN q
    ELSE Norm(p[1] * q[2] + q[1] * p[2], p[2] * q[2])

\* float multiplication
FMul(p, q) ==
    IF IsNaN(p) \/ IsNaN(q) THEN FNaN
    ELSE Norm(p[1] * q[1], p[2] * q[2])

\* x ** e for e in {-1, 0, 1}
FPow(p, e) ==
    IF e = 0 THEN FInt(1)
    ELSE IF e = 1 THEN p
    ELSE IF IsNaN(p) THEN FNaN
    ELSE IF p[1] = 0 THEN <<1, 0>>
    ELSE Norm(p[2], p[1])

\* x > 0 on floats (False for nan)
FPos(p) == p[1] > 0

\* int32 / int32 as numpy divides: a float, inf or nan when the divisor is 0
FDiv(a, b) == Norm(a, b)

-----------------------------------------------------------------------------
(* The cost oracles (cost_fn), in tenths; every one gives 0 for a self-pair *)

CostFns == {"unit", "square", "line", "oneway", "near"}

Pos(a) == CASE a = 1 -> 0 [] a = 2 -> 2 [] a = 3 -> 3 [] OTHER -> 6

Cost(name, a, b) ==
    IF a = b THEN 0
    ELSE CASE name = "unit"   -> 10
           \* the corners (0,0),(1,0),(1,1),(0,1): a side is 1, a diagonal 1.41..
           [] name = "square" -> IF Abs(a - b) = 2 THEN 14 ELSE 10
           \* points on a line at 0, 2, 3 and 6
           [] name = "line"   -> 10 * Abs(Pos(a) - Pos(b))
           \* not symmetric: 1 -> 2 -> 3 -> 4 -> 1 costs 1 a leg, any other leg 2
           [] name = "oneway" -> IF b = (a % 4) + 1 \/ (a = 3 /\ b = 1) THEN 10 ELSE 20
           \* all nodes half a unit apart
           [] OTHER           -> 5

\* a float stored into an int32 array: truncated
ToInt32(tenths) == tenths \div 10

-----------------------------------------------------------------------------
(* __init__ *)

DefaultArgs ==
    [ time |-> 0, min_time |-> 0, timeout |-> 0, stop_factor |-> FInt(2),
      min_round_trips |-> 10, max_round_trips |-> 0, min_ants |-> 0,
      max_ants |-> 0, ant_count |-> 64, ant_speed |-> 1, decay_power |-> 0,
      reward_power |-> 0, best_path_smell |-> FInt(2), start_smell |-> FInt(0),
      cost_fn |-> "unit" ]

\* int(x) of a time given in half seconds
IntOfHalves(h) == h \div 2

\* The stored options; time, min_time and timeout are passed in half seconds.
Constructor(a) ==
    LET clampTrips == a.min_round_trips # 0 /\ a.max_round_trips # 0
        clampAnts  == a.min_ants # 0 /\ a.max_ants # 0
    IN  [ time            |-> IntOfHalves(a.time),
          min_time        |-> IntOfHalves(a.min_time),
          timeout         |-> IntOfHalves(a.timeout),
          stop_factor     |-> a.stop_factor,
          min_round_trips |-> IF clampTrips
                              THEN Min(a.min_round_trips, a.max_round_trips)
                              ELSE a.min_round_trips,
          max_round_trips |-> a.max_round_trips,
          min_ants        |-> IF clampAnts THEN Min(a.min_ants, a.max_ants)
                              ELSE a.min_ants,
          max_ants        |-> a.max_ants,
          decay_power     |-> a.decay_power,
          reward_power    |-> a.reward_power,
          best_path_smell |-> a.best_path_smell,
          start_smell     |-> IF a.start_smell[1] # 0 THEN a.start_smell
                              ELSE FInt(10) ]

-----------------------------------------------------------------------------
(* solve_initialize *)

Range(s) == {s[k] : k \in DOMAIN s}

Pairs(path) == Range(path) \X Range(path)

InitDistances(path, fn) == [p \in Pairs(path) |-> Cost(fn, p[1], p[2])]

\* 1 / (1 + d) ** distance_power, distance_power = 1
InitDistanceCost(path, fn) ==
    [p \in Pairs(path) |-> Norm(10, 10 + Cost(fn, p[1], p[2]))]

InitPheromones(path, start_smell) == [p \in Pairs(path) |-> start_smell]

\* the k-th smallest value of f, counting repetitions
Kth(f, k) ==
    CHOOSE v \in {f[p] : p \in DOMAIN f} :
        /\ Cardinality({p \in DOMAIN f : f[p] <= v}) >= k
        /\ Cardinality({p \in DOMAIN f : f[p] < v}) < k

\* twice np.median of the values of f (f not empty)
Median2(f) ==
    LET n == Cardinality(DOMAIN f)
    IN  IF n % 2 = 1 THEN 2 * Kth(f, (n + 1) \div 2)
        ELSE Kth(f, n \div 2) + Kth(f, n \div 2 + 1)

\* ant_count after "Sanitise input parameters"
SaneAntCount(count, path) == IF count <= 0 THEN Len(path) ELSE count

\* ant_speed after "Sanitise input parameters": median // 5, at least 1
\* (the median of no distances is nan, and max(1, nan) is 1)
SaneAntSpeed(speed, dist) ==
    IF speed > 0 THEN speed
    ELSE IF DOMAIN dist = {} THEN 1
    ELSE Max(1, Median2(dist) \div 100)

-----------------------------------------------------------------------------
(* solve: the ants *)

Last(s) == s[Len(s)]

Tail1(path) == {path[k] : k \in 2..Len(path)}

\* the dictionary "ants" of instance count over problem_path
NewAnts(count, path) ==
    [ distance    |-> [i \in 1..count |-> 0],
      path        |-> [i \in 1..count |-> <<path[1]>>],
      remaining   |-> [i \in 1..count |-> Tail1(path)],
      path_cost   |-> [i \in 1..count |-> 0],
      round_trips |-> [i \in 1..count |-> 0] ]

NoAnts == NewAnts(0, <<>>)

AntIds == DOMAIN ants.distance

\* ants_travelling
Travelling(i) == ants.distance[i] > ant_speed

\* the nodes whose rows the caches hold
Keys == {p[1] : p \in DOMAIN distances}

-----------------------------------------------------------------------------
(* next_node *)

\* the candidates the weights are computed for
Candidates(path, remaining) == remaining \ {Last(path)}

\* The node next_node returns.  With remaining empty it is home.  With no
\* candidate (remaining holds the current node only) both loops leave
\* next_node at that node.  Otherwise the roulette wheel picks a candidate:
\* choice stands for the outcome of random.random().
NextNode(path, remaining, choice) ==
    IF remaining = {} THEN path[1]
    ELSE IF Candidates(path, remaining) = {} THEN Last(path)
    ELSE choice

\* the outcomes the roulette wheel has for an ant
Choices(path, remaining) ==
    IF Candidates(path, remaining) = {} THEN {NextNode(path, remaining, 0)}
    ELSE Candidates(path, remaining)

\* a lookup of next_node or of line 152 raises KeyError
MissingKey(path, remaining, next) ==
    ({Last(path), next} \cup Candidates(path, remaining)) \ Keys # {}

-----------------------------------------------------------------------------
(* solve: one arriving ant *)

RECURSIVE LeaveTrail(_, _, _, _, _)
RECURSIVE DrainTrail(_, _, _, _, _)
RECURSIVE ForwardTrail(_, _, _, _, _)

\* a trail written in the direction of travel only
ForwardTrail(pher, path, k, reward, was_best_path) ==
    IF k >= Len(path) THEN pher
    ELSE LET this == path[k]
             next == path[k + 1]
             p1 == [pher EXCEPT ![<<this, next>>] = FAdd(@, reward)]
             p3 == [p1 EXCEPT ![<<this, next>>] = FMul(@, cfg.best_path_smell)]
         IN  ForwardTrail(IF was_best_path THEN p3 ELSE p1, path, k + 1,
                          reward, was_best_path)

\* a trail that takes the reward from the way back instead of adding it
DrainTrail(pher, path, k, reward, was_best_path) ==
    IF k >= Len(path) THEN pher
    ELSE LET this == path[k]
             next == path[k + 1]
             p1 == [pher EXCEPT ![<<this, next>>] = FAdd(@, reward)]
             p2 == [p1 EXCEPT ![<<next, this>>] = FAdd(@, FMul(FInt(-1), reward))]
             p3 == [p2 EXCEPT ![<<this, next>>] = FMul(@, cfg.best_path_smell)]
             p4 == [p3 EXCEPT ![<<next, this>>] = FMul(@, cfg.best_path_smell)]
         IN  DrainTrail(IF was_best_path THEN p4 ELSE p2, path, k + 1, reward,
                        was_best_path)

\* "leave pheromone trail": the legs path[k], path[k+1] from k on
LeaveTrail(pher, path, k, reward, was_best_path) ==
    IF k >= Len(path) THEN pher
    ELSE LET this == path[k]
             next == path[k + 1]
             p1 == [pher EXCEPT ![<<this, next>>] = FAdd(@, reward)]
             p2 == [p1 EXCEPT ![<<next, this>>] = FAdd(@, reward)]
             p3 == [p2 EXCEPT ![<<this, next>>] = FMul(@, cfg.best_path_smell)]
             p4 == [p3 EXCEPT ![<<next, this>>] = FMul(@, cfg.best_path_smell)]
         IN  LeaveTrail(IF was_best_path THEN p4 ELSE p2, path, k + 1, reward,
                        was_best_path)

\* the reward of a completed tour
Reward(best_cost, cost, trips) ==
    FMul(IF cfg.reward_power # 0
         THEN FPow(FDiv(best_cost, cost), cfg.reward_power) ELSE FInt(1),
         IF cfg.decay_power # 0
         THEN FPow(FInt(trips), cfg.decay_power) ELSE FInt(1))

\* a tour that is no worse replaces the best
NotWorseIsBest(cost, best_cost) == cost <= best_cost

\* a tour of any other cost replaces the best
AnyOtherCostIsBest(cost, best_cost) == cost # best_cost

\* "if ants['path_cost'][i] < best_path_cost"
IsNewBest(cost, best_cost) == cost < best_cost

\* a reset that puts the one new path list in every ant's slot
ResetEveryPath(a, i) ==
    [a EXCEPT !.distance[i] = 0,
              !.path = [j \in DOMAIN @ |-> <<problem_path[1]>>],
              !.remaining[i] = Tail1(problem_path),
              !.path_cost[i] = 0,
              !.round_trips[i] = @ + 1]

\* a reset that leaves the ant's round-trip counter as it is
ResetKeepsTrips(a, i) ==
    [a EXCEPT !.distance[i] = 0,
              !.path[i] = <<problem_path[1]>>,
              !.remaining[i] = Tail1(problem_path),
              !.path_cost[i] = 0]

\* "reset ant"
ResetAnt(a, i) ==
    [a EXCEPT !.distance[i] = 0,
              !.path[i] = <<problem_path[1]>>,
              !.remaining[i] = Tail1(problem_path),
              !.path_cost[i] = 0,
              !.round_trips[i] = @ + 1]

\* the leg an arriving ant starts: lines 150-155
StartLeg(a, i, next) ==
    LET this == Last(a.path[i])
        d    == ToInt32(distances[<<this, next>>])
    IN  [a EXCEPT !.distance[i] = d,
                  !.remaining[i] = @ \ {this},
                  !.path_cost[i] = @ + d,
                  !.path[i] = Append(@, next)]

\* every arrival counts as a return to the colony
LegComplete(a, i) == TRUE

\* "ant has returned home to the colony"
TourComplete(a, i) == a.remaining[i] = {} /\ a.path[i][1] = Last(a.path[i])

\* The body of the loop over ants_arriving_index for ant i, on the loop's
\* state st: the ants, the solver's fields and solve's locals.
Arrive(st, i, next, ep) ==
    LET a == StartLeg(st.ants, i, next)
    IN  IF ~TourComplete(a, i) THEN [st EXCEPT !.ants = a]
        ELSE LET cost     == a.path_cost[i]
                 trips    == Max(st.round_trips, a.round_trips[i] + 1)
                 was_best == IsNewBest(cost, st.best_path_cost)
                 best     == IF was_best THEN cost ELSE st.best_path_cost
             IN  [ ants           |-> ResetAnt(a, i),
                   pheromones     |-> LeaveTrail(st.pheromones, a.path[i], 1,
                                                 Reward(best, cost, trips),
                                                 was_best),
                   ants_used      |-> st.ants_used + 1,
                   round_trips    |-> trips,
                   best_path      |-> IF was_best THEN a.path[i]
                                      ELSE st.best_path,
                   best_path_cost |-> best,
                   best_epochs    |-> IF was_best
                                      THEN Append(st.best_epochs, ep)
                                      ELSE st.best_epochs,
                   raised         |-> FALSE,
                   completed      |-> st.completed \cup {i},
                   tours          |-> Append(st.tours,
                                             [ ant  |-> i, path |-> a.path[i],
                                               path_cost |-> cost ]) ]

\* the loop over ants_arriving_index from ant i on; pick[i] is the outcome of
\* ant i's random draw; a KeyError ends the loop
RECURSIVE Arrivals(_, _, _, _, _)
Arrivals(st, i, arriving, pick, ep) ==
    IF i > ant_count THEN st
    ELSE IF i \notin arriving THEN Arrivals(st, i + 1, arriving, pick, ep)
    ELSE LET next == NextNode(st.ants.path[i], st.ants.remaining[i], pick[i])
         IN  IF MissingKey(st.ants.path[i], st.ants.remaining[i], next)
             THEN [st EXCEPT !.raised = TRUE]
             ELSE Arrivals(Arrive(st, i, next, ep), i + 1, arriving, pick, ep)

-----------------------------------------------------------------------------
(* solve: "Do we terminate?" *)

TimerSet == cfg.time # 0 \/ cfg.min_time # 0 \/ cfg.timeout # 0

\* a stagnation test that measures against the current epoch
StagnatedSinceNow(ep, epochs) ==
    /\ cfg.stop_factor[1] # 0
    /\ ep * cfg.stop_factor[2] > ep * cfg.stop_factor[1]

\* epoch > best_epochs[-1] * stop_factor
Stagnated(ep, epochs) ==
    /\ cfg.stop_factor[1] # 0
    /\ ep * cfg.stop_factor[2] > Last(epochs) * cfg.stop_factor[1]

\* the checks below the timer with the ant bounds ahead of the trip bounds
AntsBeforeTrips(trips, used, ep, epochs) ==
    IF cfg.min_ants # 0 /\ used < cfg.min_ants THEN "continue"
    ELSE IF cfg.max_ants # 0 /\ used >= cfg.max_ants THEN "break"
    ELSE IF cfg.min_round_trips # 0 /\ trips < cfg.min_round_trips THEN "continue"
    ELSE IF cfg.max_round_trips # 0 /\ trips >= cfg.max_round_trips THEN "break"
    ELSE IF Stagnated(ep, epochs) THEN "break"
    ELSE "continue"

\* the checks below the timer with a maximum that is reached only when passed
TripsPastMax(trips, used, ep, epochs) ==
    IF cfg.min_round_trips # 0 /\ trips < cfg.min_round_trips THEN "continue"
    ELSE IF cfg.max_round_trips # 0 /\ trips > cfg.max_round_trips THEN "break"
    ELSE IF cfg.min_ants # 0 /\ used < cfg.min_ants THEN "continue"
    ELSE IF cfg.max_ants # 0 /\ used >= cfg.max_ants THEN "break"
    ELSE IF Stagnated(ep, epochs) THEN "break"
    ELSE "continue"

\* lines 219-231: the checks below the timer
Bounds(trips, used, ep, epochs) ==
    IF cfg.min_round_trips # 0 /\ trips < cfg.min_round_trips THEN "continue"
    ELSE IF cfg.max_round_trips # 0 /\ trips >= cfg.max_round_trips THEN "break"
    ELSE IF cfg.min_ants # 0 /\ used < cfg.min_ants THEN "continue"
    ELSE IF cfg.max_ants # 0 /\ used >= cfg.max_ants THEN "break"
    ELSE IF Stagnated(ep, epochs) THEN "break"
    ELSE "continue"

\* a stored number of whole seconds, in the half seconds of the clock
Halves(seconds) == 2 * seconds

\* lines 208-217: the timer; now is the clock reading, in half seconds
Timer(now, rest) ==
    IF cfg.time # 0
    THEN (IF now > Halves(cfg.time) THEN "break" ELSE "continue")
    ELSE IF cfg.min_time # 0 /\ now < Halves(cfg.min_time) THEN "continue"
    ELSE IF cfg.timeout # 0 /\ now > Halves(cfg.timeout) THEN "break"
    ELSE rest

\* a policy that consults the timer before it waits for a first tour
TimerFirst(trips, used, ep, epochs, now) ==
    LET rest == IF Len(epochs) = 0 THEN "waiting"
                ELSE Bounds(trips, used, ep, epochs)
    IN  IF TimerSet THEN Timer(now, rest) ELSE rest

\* lines 203-231: "waiting" while no tour has completed
Terminate(trips, used, ep, epochs, now) ==
    IF Len(epochs) = 0 THEN "waiting"
    ELSE IF TimerSet THEN Timer(now, Bounds(trips, used, ep, epochs))
    ELSE Bounds(trips, used, ep, epochs)

\* np.max(ants["round_trips"])
MaxTrips(a) ==
    CHOOSE m \in {a.round_trips[i] : i \in DOMAIN a.round_trips} :
        \A i \in DOMAIN a.round_trips : a.round_trips[i] <= m

-----------------------------------------------------------------------------
(* The random draws of one epoch *)

RECURSIVE Product(_, _)
\* the sequences of length n whose k-th element is in C[k]
Product(C, n) ==
    IF n = 0 THEN {<<>>}
    ELSE {Append(s, x) : s \in Product(C, n - 1), x \in C[n]}

\* the r-th node of S in ascending order, counting round
Nth(S, r) ==
    LET k == ((r - 1) % Cardinality(S)) + 1
    IN  CHOOSE x \in S : Cardinality({y \in S : y <= x}) = k

\* The outcomes of the epoch's draws, one per ant.  "free": every ant draws
\* on its own, every outcome is followed.  "same": the runs in which every
\* draw gives the same value, which selects the candidate of rank env.rank.
Picks ==
    LET C == [i \in AntIds |-> IF Travelling(i) THEN {0}
                                ELSE Choices(ants.path[i], ants.remaining[i])]
    IN  IF env.draws = "free" THEN Product(C, Cardinality(AntIds))
        ELSE {[i \in AntIds |-> Nth(C[i], env.rank)]}

\* the values time.perf_counter() - time_start can have at this epoch's end;
\* the clock is read only when a timer option is set
ClockNext == IF TimerSet THEN clock..MaxClock ELSE {clock}

-----------------------------------------------------------------------------
(* The actions *)

\* a solve that initializes on every call
AlwaysInit(restart) == TRUE

\* "if restart or not self._initalized"
NeedsInit(restart) == restart \/ ~initalized

\* a loop that goes to the termination checks in every pass
NeverSkips(arriving) == FALSE

\* "if all(ants_travelling): continue": no arrival, no termination check
SkipsChecks(arriving) == arriving = {}

\* solve(problem_path, restart) up to the loop: lines 116-132
Solve(path, restart) ==
    LET init  == NeedsInit(restart)
        dist  == IF init THEN InitDistances(path, cost_fn) ELSE distances
        count == IF init THEN SaneAntCount(ant_count, path) ELSE ant_count
        \* ants["path"] reads problem_path[0]: IndexError
        raise == count > 0 /\ Len(path) = 0
    IN  /\ pc # "loop"
        /\ calls < env.calls
        /\ calls' = calls + 1
        /\ problem_path' = path
        /\ distances' = dist
        /\ distance_cost' = IF init THEN InitDistanceCost(path, cost_fn)
                            ELSE distance_cost
        /\ pheromones' = IF init THEN InitPheromones(path, cfg.start_smell)
                         ELSE pheromones
        /\ ant_count' = count
        /\ ant_speed' = IF init THEN SaneAntSpeed(ant_speed, dist) ELSE ant_speed
        /\ ants_used' = IF init THEN 0 ELSE ants_used
        /\ epochs_used' = IF init THEN 0 ELSE epochs_used
        /\ round_trips' = IF init THEN 0 ELSE round_trips
        /\ initalized' = TRUE
        /\ pc' = IF raise THEN "raised" ELSE "loop"
        /\ ants' = IF raise THEN NoAnts ELSE NewAnts(count, path)
        /\ best_path' = None
        /\ best_path_cost' = Inf
        /\ best_epochs' = <<>>
        /\ epoch' = 0
        /\ clock' = 0
        /\ last' = [ step |-> "solve", restart |-> restart, verdict |-> "none",
                     arriving |-> {}, completed |-> {}, tours |-> <<>>,
                     round_trips |-> 0, next_node |-> <<>> ]
        /\ UNCHANGED <<cfg, cost_fn, env>>

\* one pass of "while True": lines 133-231, and lines 233-236 after a break
Epoch(pick, now) ==
    LET ep       == epoch + 1
        arriving == {i \in AntIds : ~Travelling(i)}
        walked   == [ants EXCEPT !.distance =
                        [i \in AntIds |-> IF Travelling(i) THEN @[i] - ant_speed
                                          ELSE @[i]]]
        st0      == [ ants |-> walked, pheromones |-> pheromones,
                      ants_used |-> ants_used, round_trips |-> round_trips,
                      best_path |-> best_path,
                      best_path_cost |-> best_path_cost,
                      best_epochs |-> best_epochs, raised |-> FALSE,
                      completed |-> {}, tours |-> <<>> ]
        st       == Arrivals(st0, 1, arriving, pick, ep)
        verdict  == IF SkipsChecks(arriving) THEN "skipped"
                    ELSE IF st.raised THEN "raised"
                    ELSE Terminate(st.round_trips, st.ants_used, ep,
                                   st.best_epochs, now)
    IN  /\ pc = "loop"
        /\ epoch < env.epochs
        /\ epoch' = ep
        /\ clock' = now
        /\ ants' = st.ants
        /\ pheromones' = st.pheromones
        /\ ants_used' = st.ants_used
        /\ best_path' = st.best_path
        /\ best_path_cost' = st.best_path_cost
        /\ best_epochs' = st.best_epochs
        /\ pc' = CASE verdict = "break" -> "returned"
                   [] verdict = "raised" -> "raised"
                   [] OTHER -> "loop"
        /\ round_trips' = IF verdict = "break" THEN MaxTrips(st.ants)
                          ELSE st.round_trips
        /\ epochs_used' = IF verdict = "break" THEN ep ELSE epochs_used
        /\ last' = [ step |-> "epoch", restart |-> FALSE, verdict |-> verdict,
                     arriving |-> arriving, completed |-> st.completed,
                     tours |-> st.tours, round_trips |-> st.round_trips,
                     next_node |->
                        [i \in arriving |->
                            [ this_node |-> Last(ants.path[i]),
                              remaining |-> ants.remaining[i],
                              returns   |-> NextNode(ants.path[i],
                                                     ants.remaining[i],
                                                     pick[i]) ]] ]
        /\ UNCHANGED <<cfg, ant_count, ant_speed, initalized, distances,
                       distance_cost, cost_fn, problem_path, calls, env>>

Next ==
    \/ \E path \in env.paths, restart \in BOOLEAN : Solve(path, restart)
    \/ \E pick \in Picks, now \in ClockNext : Epoch(pick, now)

-----------------------------------------------------------------------------
(* The initial states: a solver as __init__ leaves it *)

Constructed(args, caller) ==
    /\ cfg = Constructor(args)
    /\ ant_count = args.ant_count
    /\ ant_speed = args.ant_speed
    /\ cost_fn = args.cost_fn
    /\ initalized = FALSE
    /\ distances = <<>>
    /\ distance_cost = <<>>
    /\ pheromones = <<>>
    /\ ants_used = 0
    /\ epochs_used = 0
    /\ round_trips = 0
    /\ pc = "idle"
    /\ problem_path = <<>>
    /\ ants = NoAnts
    /\ best_path = None
    /\ best_path_cost = Inf
    /\ best_epochs = <<>>
    /\ epoch = 0
    /\ clock = 0
    /\ calls = 0
    /\ last = [ step |-> "init", restart |-> FALSE, verdict |-> "none",
                arriving |-> {}, completed |-> {}, tours |-> <<>>,
                round_trips |-> 0, next_node |-> <<>> ]
    /\ env = caller

\* the callers
Caller(paths, n, mode) ==
    [ paths |-> paths, calls |-> n, draws |-> mode, rank |-> 0,
      epochs |-> MaxEpoch, time |-> 0 ]

With(field, values) == {[DefaultArgs EXCEPT ![field] = v] : v \in values}

-----------------------------------------------------------------------------
(* Spec: one solve call on inputs of up to three nodes, no timer *)

SpecArgs ==
    { [DefaultArgs EXCEPT !.cost_fn = c, !.ant_count = n, !.ant_speed = v,
                          !.min_round_trips = m, !.stop_factor = FInt(f)] :
        c \in {"unit", "line", "oneway", "near"}, n \in {0, 1, 2},
        v \in {0, 1}, m \in {0, 2}, f \in {1, 2} }

Init ==
    \E args \in SpecArgs :
        Constructed(args, Caller({<<>>, <<1>>, <<1, 2>>, <<1, 2, 3>>}, 1, "free"))

Spec == Init /\ [][Next]_vars

-----------------------------------------------------------------------------
(* Claims checked under Spec *)

Symmetric == cost_fn \in {"unit", "square", "line", "near"}

\* C1: whenever solve returns on two or more nodes with a symmetric cost,
\* best_path is a permutation of the input: it starts with the home node,
\* holds every input node exactly once and has as many elements as the input.
C1_ReturnsPermutation ==
    (pc = "returned" /\ Len(problem_path) >= 2 /\ Symmetric)
        => /\ best_path # None
           /\ best_path[1] = problem_path[1]
           /\ Len(best_path) = Len(problem_path)
           /\ Range(best_path) = Range(problem_path)

\* C3: a solve call on an empty or single-node input completes no tour
\* (ants_used stays 0), raises nothing and returns none.
C3_SmallInputReturnsNone ==
    (calls > 0 /\ Len(problem_path) < 2)
        => /\ ants_used = 0
           /\ pc # "raised"
           /\ pc = "returned" => best_path = None

\* C10: at every call of next_node on an input of two or more nodes the
\* ant's current node is not in its remaining set, the node returned is not
\* the current node, and with remaining not empty it is an unvisited node.
C10_NeverSelfLeg ==
    Len(problem_path) >= 2 =>
        \A i \in DOMAIN last.next_node :
            LET c == last.next_node[i]
            IN  /\ c.this_node \notin c.remaining
                /\ c.returns # c.this_node
                /\ c.remaining # {} => c.returns \in c.remaining

\* C6: within one solve call best_path_cost never increases from one epoch
\* to the next: a recorded best cost is only replaced by a smaller one.
C6_BestCostNonIncreasing ==
    [][pc = "loop" => best_path_cost' <= best_path_cost]_vars

\* a run in which a recorded best cost was replaced
C6_Improved ==
    /\ Len(best_epochs) >= 2
    /\ best_path_cost < Inf

-----------------------------------------------------------------------------
(* SpecSmell: one solve call under every reward and decay exponent *)

Half == <<1, 2>>

SmellArgs ==
    { [DefaultArgs EXCEPT !.cost_fn = c, !.ant_count = 2,
                          !.min_round_trips = 2, !.reward_power = r,
                          !.decay_power = d, !.best_path_smell = b,
                          !.start_smell = s] :
        c \in {"line", "oneway", "near"}, r \in {-1, 0, 1}, d \in {-1, 0, 1},
        b \in {FInt(2), Half}, s \in {FInt(0), Half} }

InitSmell ==
    \E args \in SmellArgs :
        Constructed(args, Caller({<<1, 2>>, <<1, 2, 3>>}, 1, "free"))

SpecSmell == InitSmell /\ [][Next]_vars

\* every tour completed in this call had a positive cost
PositiveTourCosts == best_path_cost > 0

-----------------------------------------------------------------------------
(* SpecTimer: one solve call under the timer options and the bounds *)

TimerArgs ==
    { [DefaultArgs EXCEPT !.cost_fn = "line", !.ant_count = n,
                          !.stop_factor = FInt(1), !.time = t,
                          !.min_time = lo, !.timeout = hi,
                          !.min_round_trips = m, !.max_round_trips = x,
                          !.min_ants = a, !.max_ants = b] :
        n \in {1, 2}, t \in {0, 1, 2}, lo \in {0, 2}, hi \in {0, 2},
        m \in {0, 2}, x \in {0, 1}, a \in {0, 3}, b \in {0, 1} }

InitTimer ==
    \E args \in TimerArgs :
        Constructed(args, [Caller({<<1, 2>>}, 1, "free")
                              EXCEPT !.time = args.time])

SpecTimer == InitTimer /\ [][Next]_vars

\* the termination policy was evaluated in the last epoch
Checked == last.verdict \in {"continue", "break"}

\* C4: with time=T>0 passed to the solver, at every termination check the
\* run continues when elapsed < T and stops when elapsed > T, whatever the
\* round-trip bounds, the ant bounds, min_time and the stagnation condition
\* say.
C4_TimeOverrides ==
    (Checked /\ env.time > 0)
        => /\ clock < env.time => last.verdict = "continue"
           /\ clock > env.time => last.verdict = "break"

\* a completed tour over the input: from home through every node back home
CompletedTour(path) ==
    /\ path # None
    /\ path[1] = problem_path[1]
    /\ Last(path) = problem_path[1]
    /\ Range(path) = Range(problem_path)

\* C8: solve never stops before a tour has completed, whatever the timer and
\* the maxima say: whenever it has returned, best_path is a completed tour.
C8_ReturnsCompletedTour ==
    pc = "returned"
        => /\ CompletedTour(best_path)
           /\ Len(best_epochs) > 0
           /\ ants_used > 0

\* the run goes on with its time budget spent, no tour being complete
C8_WaitsPastBudget ==
    /\ pc = "loop"
    /\ last.verdict = "waiting"
    /\ best_path = None
    /\ cfg.time > 0
    /\ clock > Halves(cfg.time)
    /\ cfg.max_ants > 0

-----------------------------------------------------------------------------
(* SpecRestart: several solve calls on one solver, with and without restart *)

RestartArgs ==
    { [DefaultArgs EXCEPT !.cost_fn = c, !.ant_count = n, !.ant_speed = v,
                          !.stop_factor = FInt(1), !.min_round_trips = m,
                          !.max_round_trips = x] :
        c \in {"unit", "oneway"}, n \in {0, 1, 2}, v \in {0, 1}, m \in {0, 2},
        x \in {0, 2} }

InitRestart ==
    \E args \in RestartArgs :
        Constructed(args, Caller({<<1, 2>>, <<2, 1>>, <<1, 2, 3>>}, MaxCalls,
                                 "free"))

SpecRestart == InitRestart /\ [][Next]_vars

\* the step is a solve call up to its loop
Called == calls' = calls + 1

\* C9: a solve call with restart=false on an initialized solver keeps the
\* distance and attractiveness matrices, the pheromone field and ants_used,
\* and ants_used only grows from there; a call with restart=true, or the
\* first call, sets the pheromone field to start_smell everywhere and
\* ants_used, epochs_used and round_trips to 0 before the loop starts.
C9_RestartResets ==
    [][ /\ (Called /\ ~last'.restart /\ initalized)
            => /\ distances' = distances
               /\ distance_cost' = distance_cost
               /\ pheromones' = pheromones
               /\ ants_used' = ants_used
        /\ (Called /\ (last'.restart \/ ~initalized))
            => /\ pheromones' = [p \in Pairs(problem_path') |-> cfg.start_smell]
               /\ ants_used' = 0
               /\ epochs_used' = 0
               /\ round_trips' = 0
               /\ epoch' = 0
        /\ pc = "loop" => ants_used' >= ants_used
      ]_vars

\* a second call without restart has started on another node list, with the
\* first call's tours counted and its trails in the field
C9_CarriedOver ==
    /\ calls = 2
    /\ last.step = "solve"
    /\ ~last.restart
    /\ pc = "loop"
    /\ ants_used > 0
    /\ Keys # Range(problem_path)
    /\ \E p \in DOMAIN pheromones : pheromones[p] # cfg.start_smell

-----------------------------------------------------------------------------
(* SpecSquare: the unit square with 8 ants, every other option at its       *)
(* default.  The runs followed are those in which every draw gives the     *)
(* same value; each of them is a run of the solver.                        *)

SquareArgs == [DefaultArgs EXCEPT !.cost_fn = "square", !.ant_count = 8]

InitSquare ==
    \E r \in Nodes :
        Constructed(SquareArgs,
                    [Caller({<<1, 2, 3, 4>>}, 1, "same")
                        EXCEPT !.epochs = MaxSquareEpoch, !.rank = r])

SpecSquare == InitSquare /\ [][Next]_vars

\* no leg of the path is a diagonal of the square
NoDiagonal(path) ==
    \A k \in 1..(Len(path) - 1) : Abs(path[k] - path[k + 1]) # 2

\* C2: on the unit square with ant_count=8 and stop_factor=2 every run
\* returns as best_path the perimeter tour of length 4, which uses no
\* diagonal.
C2_SquareReturnsPerimeter ==
    pc = "returned" => (best_path # None /\ NoDiagonal(best_path))

-----------------------------------------------------------------------------
(* Claims on the steps of the loop, checked under Spec *)

\* the step is a pass of the loop in which some ant arrived and no lookup
\* raised
ArrivalPass == epoch' = epoch + 1 /\ last'.arriving # {} /\ pc' # "raised"

\* C11 as stated: the pheromone field is updated at every arrival, so a pass
\* with arrivals in which no ant completes a tour changes some entry.
C11_EveryLegLeavesTrail ==
    [][(ArrivalPass /\ last'.completed = {}) => pheromones' # pheromones]_vars

\* C11, amended: the pheromone field is updated only when an ant completes a
\* full tour; a pass in which no ant closes a tour over the whole input
\* changes no entry.
C11_OnlyToursLeaveTrail ==
    [][(epoch' = epoch + 1
            /\ \A k \in DOMAIN last'.tours : ~CompletedTour(last'.tours[k].path))
        => pheromones' = pheromones]_vars

\* an ant has arrived without completing a tour, in a field that earlier
\* tours have changed
C11_LegAfterTours ==
    /\ last.step = "epoch"
    /\ last.arriving # {}
    /\ last.tours = <<>>
    /\ pc = "loop"
    /\ Len(problem_path) >= 2
    /\ \E p \in DOMAIN pheromones : pheromones[p] # cfg.start_smell


-----------------------------------------------------------------------------
(* Claims on the pheromone field, checked under SpecSmell *)

-----------------------------------------------------------------------------
(* Claims on the checks below the timer, under SpecTimer with no timer set *)

\* the conditions of lines 220-225 at the last termination check
BelowMinTrips ==
    cfg.min_round_trips # 0 /\ last.round_trips < cfg.min_round_trips

AtMaxTrips ==
    cfg.max_round_trips # 0 /\ last.round_trips >= cfg.max_round_trips

BelowMinAnts == cfg.min_ants # 0 /\ ants_used < cfg.min_ants

AtMaxAnts == cfg.max_ants # 0 /\ ants_used >= cfg.max_ants

\* C13: with no time option set the checks are applied in the order
\* min_round_trips, max_round_trips, min_ants, max_ants, stagnation, and the
\* first that matches decides: below min_round_trips the run continues even
\* with max_ants reached or stagnation, and below min_ants (the round-trip
\* bounds not deciding) it continues even with stagnation.
C13_BoundsInOrder ==
    (Checked /\ ~TimerSet)
        => /\ BelowMinTrips => last.verdict = "continue"
           /\ (~BelowMinTrips /\ AtMaxTrips) => last.verdict = "break"
           /\ (~BelowMinTrips /\ ~AtMaxTrips /\ BelowMinAnts)
                => last.verdict = "continue"
           /\ (~BelowMinTrips /\ ~AtMaxTrips /\ ~BelowMinAnts /\ AtMaxAnts)
                => last.verdict = "break"
           /\ (~BelowMinTrips /\ ~AtMaxTrips /\ ~BelowMinAnts /\ ~AtMaxAnts)
                => (last.verdict = "break" <=> Stagnated(epoch, best_epochs))

\* the run continues below min_round_trips with max_ants reached and the
\* stagnation condition true
C13_MinTripsWins ==
    /\ Checked
    /\ ~TimerSet
    /\ BelowMinTrips
    /\ AtMaxAnts
    /\ Stagnated(epoch, best_epochs)
    /\ pc = "loop"


-----------------------------------------------------------------------------
(* Claims on the counters over several calls, checked under SpecRestart *)

\* C14: in every solve call, a call with restart=false on an initialized
\* solver included, the solver's round_trips is the maximum of the ants' own
\* round-trip counters at every termination check and on return.
C14_TripsIsMaxOfAnts ==
    /\ Checked => last.round_trips = MaxTrips(ants)
    /\ (pc = "returned" /\ last.step = "epoch") => round_trips = MaxTrips(ants)


-----------------------------------------------------------------------------
(* Claims on single passes of the loop, checked under SpecTimer *)

\* C15: in a pass in which every ant has distance > ant_speed, the epoch
\* counter goes up by one and every countdown goes down by ant_speed; no
\* path, remaining set, path_cost, pheromone entry or counter changes and
\* the run does not stop, whatever the clock reads.
C15_TravellingPassOnlyWalks ==
    [][(pc = "loop" /\ \A i \in AntIds : Travelling(i))
        => /\ epoch' = epoch + 1
           /\ pc' = "loop"
           /\ ants' = [ants EXCEPT !.distance =
                          [i \in AntIds |-> @[i] - ant_speed]]
           /\ UNCHANGED <<pheromones, ants_used, round_trips, epochs_used,
                          best_path, best_path_cost, best_epochs, distances,
                          distance_cost, ant_count, ant_speed, initalized,
                          problem_path, cfg, cost_fn, calls>>
      ]_vars

\* a pass with every ant on its way has gone by with a tour known and the
\* time budget spent
C15_SkippedPastBudget ==
    /\ last.verdict = "skipped"
    /\ AntIds # {}
    /\ pc = "loop"
    /\ best_path # None
    /\ cfg.time > 0
    /\ clock > Halves(cfg.time)


-----------------------------------------------------------------------------
(* Claims on the ants and the tours of one call, checked under Spec *)

\* the step is a pass of the loop that raised nothing
Pass == epoch' = epoch + 1 /\ pc' # "raised"

\* C16: right after its tour-completing step an ant has path [home], all
\* the other nodes remaining, path_cost 0, distance 0 and one round trip
\* more; the step changes no other ant: an ant that did not arrive keeps its
\* path, remaining set, path_cost and round trips and has only walked, and
\* an ant that arrived without completing has only taken its own leg.
C16_CompletionResetsAnt ==
    [][Pass =>
        \A i \in AntIds :
            /\ i \in last'.completed
                => /\ ants'.path[i] = <<problem_path[1]>>
                   /\ ants'.remaining[i] = Tail1(problem_path)
                   /\ ants'.path_cost[i] = 0
                   /\ ants'.distance[i] = 0
                   /\ ants'.round_trips[i] = ants.round_trips[i] + 1
            /\ i \notin last'.arriving
                => /\ ants'.path[i] = ants.path[i]
                   /\ ants'.remaining[i] = ants.remaining[i]
                   /\ ants'.path_cost[i] = ants.path_cost[i]
                   /\ ants'.round_trips[i] = ants.round_trips[i]
                   /\ ants'.distance[i] = ants.distance[i] - ant_speed
            /\ i \in last'.arriving \ last'.completed
                => /\ ants'.path[i]
                        = Append(ants.path[i], last'.next_node[i].returns)
                   /\ ants'.remaining[i]
                        = ants.remaining[i] \ {Last(ants.path[i])}
                   /\ ants'.round_trips[i] = ants.round_trips[i]
      ]_vars

\* an ant has completed its second tour while another ant is on its way
\* through a tour
C16_ResetBesideTraveller ==
    /\ last.step = "epoch"
    /\ \E i \in last.completed, j \in AntIds \ last.arriving :
        /\ ants.round_trips[i] >= 2
        /\ Len(ants.path[j]) >= 2
        /\ ants.path_cost[j] > 0


RECURSIVE PathCost(_, _)
\* the path_cost an ant gathers over the legs of path from leg k on
PathCost(path, k) ==
    IF k >= Len(path) THEN 0
    ELSE ToInt32(distances[<<path[k], path[k + 1]>>]) + PathCost(path, k + 1)

\* C17: within a call, after the arrivals of each pass, best_path_cost is the
\* least path_cost of the tours completed so far and best_path is the first
\* completed tour of that cost: a pass lowers best_path_cost to the least
\* cost of its tours if that is lower, best_path then becomes the first tour
\* of the pass with that cost, and otherwise both stay as they are, the
\* recorded path still being the tour whose cost is recorded.
C17_BestIsFirstMinimum ==
    [][Pass =>
        LET tours == last'.tours
            costs == {tours[k].path_cost : k \in DOMAIN tours}
                        \cup {best_path_cost}
            least == CHOOSE c \in costs : \A d \in costs : c <= d
            first == CHOOSE k \in DOMAIN tours :
                        /\ tours[k].path_cost = least
                        /\ \A j \in 1..(k - 1) : tours[j].path_cost # least
        IN  /\ best_path_cost' = least
            /\ best_path' = IF least < best_path_cost THEN tours[first].path
                            ELSE best_path
            /\ best_path' # None => PathCost(best_path', 1) = best_path_cost'
      ]_vars

\* a tour of the best cost, over another route, has completed after the
\* best tour and has not replaced it
C17_EqualTourLater ==
    /\ last.step = "epoch"
    /\ Len(best_epochs) >= 1
    /\ Last(best_epochs) < epoch
    /\ \E k \in DOMAIN last.tours :
        /\ last.tours[k].path_cost = best_path_cost
        /\ last.tours[k].path # best_path


RECURSIVE SumTrips(_, _)
\* the sum of the ants' round-trip counters from ant i on
SumTrips(a, i) ==
    IF i \notin DOMAIN a.round_trips THEN 0
    ELSE a.round_trips[i] + SumTrips(a, i + 1)

\* C18: in a call on a freshly initialized solver, after the arrivals of each
\* pass ants_used is the sum of the ants' round-trip counters.
C18_AntsUsedIsSumOfTrips ==
    (calls > 0 /\ pc # "raised") => ants_used = SumTrips(ants, 1)

\* tours have been counted for ants whose own counters differ
C18_UnevenTrips ==
    /\ pc = "loop"
    /\ ants_used >= 3
    /\ \E i, j \in AntIds : ants.round_trips[i] > ants.round_trips[j]


-----------------------------------------------------------------------------
(* SpecTrips: one solve call under max_round_trips, no timer *)

TripsArgs ==
    { [DefaultArgs EXCEPT !.cost_fn = c, !.ant_count = n,
                          !.stop_factor = FInt(f), !.min_round_trips = m,
                          !.max_round_trips = x, !.min_ants = a,
                          !.max_ants = b] :
        c \in {"unit", "oneway"}, n \in {1, 2}, f \in {1, 2}, m \in {0, 2, 5},
        x \in {1, 2, 3}, a \in {0, 3}, b \in {0, 2} }

InitTrips ==
    \E args \in TripsArgs :
        Constructed(args, Caller({<<1, 2>>, <<1, 2, 3>>}, 1, "free"))

SpecTrips == InitTrips /\ [][Next]_vars

\* C19 as stated: with max_round_trips = M > 0 and no timer, solve stops in
\* the pass in which round_trips first reaches M, so the round_trips it
\* reports after return is exactly M.
C19_ReportsExactlyMaxTrips ==
    (calls > 0 /\ cfg.max_round_trips > 0 /\ ~TimerSet)
        => /\ pc = "loop" => round_trips < cfg.max_round_trips
           /\ pc = "returned" => round_trips = cfg.max_round_trips

\* C19, amended: solve stops in the pass in which round_trips first reaches
\* M unless max_ants or stagnation has stopped it before; the round_trips
\* reported after return never exceeds M, and is exactly M when the run
\* stopped with round_trips at M.
C19_StopsAtMaxTrips ==
    (calls > 0 /\ cfg.max_round_trips > 0 /\ ~TimerSet)
        => /\ pc = "loop" => round_trips < cfg.max_round_trips
           /\ pc = "returned"
                => /\ round_trips <= cfg.max_round_trips
                   /\ last.round_trips <= cfg.max_round_trips
                   /\ AtMaxTrips => round_trips = cfg.max_round_trips

\* a run has stopped on its second round trip, below min_ants and with the
\* stagnation condition false
C19_StoppedOnMaxTrips ==
    /\ pc = "returned"
    /\ cfg.max_round_trips >= 2
    /\ round_trips = cfg.max_round_trips
    /\ BelowMinAnts
    /\ ~Stagnated(epoch, best_epochs)


-----------------------------------------------------------------------------
(* SpecLive: one solve call with no timer and a stagnation factor, the loop *)
(* always taking its next pass                                             *)

LiveArgs ==
    { [DefaultArgs EXCEPT !.cost_fn = c, !.ant_count = n,
                          !.stop_factor = f, !.min_round_trips = m,
                          !.min_ants = a] :
        c \in {"unit", "line", "oneway", "near"}, n \in {1, 2},
        f \in {Half, FInt(1)}, m \in {0, 2}, a \in {0, 3} }

InitLive ==
    \E args \in LiveArgs :
        Constructed(args, Caller({<<1, 2>>, <<1, 2, 3>>}, 1, "free"))

\* "while True: epoch += 1": the loop, once entered, takes its next pass;
\* under [][Next]_vars the steps that advance epoch are the Epoch steps
LoopPass == pc = "loop" /\ epoch < env.epochs /\ epoch' = epoch + 1

SpecLive == InitLive /\ [][Next]_vars /\ WF_epoch(LoopPass)

\* C5: with no timer option set, stop_factor > 0 and finite minima, a solve
\* call on two or more nodes returns, whatever the random draws are.
C5_Terminates ==
    (pc = "loop" /\ Len(problem_path) >= 2 /\ ~TimerSet
        /\ cfg.stop_factor[1] > 0)
    ~> (pc = "returned")

\* a call has returned on stagnation after a second best and with its
\* minima met
C5_StoppedOnStagnation ==
    /\ pc = "returned"
    /\ Len(problem_path) >= 2
    /\ Len(best_epochs) >= 2
    /\ cfg.min_round_trips > 0
    /\ cfg.min_ants > 0
    /\ Stagnated(epoch, best_epochs)

====
